---- MODULE Spec2Model ----
(***************************************************************************)
(* The movie-theater queueing simulation of real-python_simpy.ipynb:       *)
(* get_user_input, main, run_theater, Theater, go_to_movies and            *)
(* calculate_wait_time, over the event kernel of the simulation library    *)
(* (one event queue ordered by time, priority and insertion; resources     *)
(* with a user list and a FIFO request queue).                             *)
(*                                                                         *)
(* Simulated time is counted in whole seconds (the notebook counts float   *)
(* minutes: 3.0/60.0 is 3 s, 12.0/60.0 is 12 s, randint(1, 3) is 60, 120   *)
(* or 180 s). Float rounding of the accumulated clock is not modelled.     *)
(***************************************************************************)
EXTENDS Integers, Sequences, FiniteSets, TLC

\* ------------------------------------------------------------- bounds
\* Longest string typed at a prompt.
MaxLen == 2
\* Simulation horizon in seconds (main() runs until=90 minutes; scaled down).
Horizon == 132
\* The horizon in the sessions of several runs and in the runs checked for
\* termination, in seconds (scaled down further).
ShortHorizon == 72
\* Number of times main() is called in one notebook session.
MaxRuns == 3
\* Longest list handed to calculate_wait_time on its own.
MaxSamples == 3

\* ------------------------------------------------- program constants
\* for moviegoer in range(3)
InitialMoviegoers == 3
\* env.timeout(12.0 / 60.0), in seconds
ArrivalInterval == 12
\* env.timeout(3.0 / 60.0), in seconds
CheckTime == 3
\* seconds in the minute the notebook's clock counts in
SecPerMin == 60
\* random.randint(1, 3) minutes
PurchaseMaxMin == 3
\* random.randint(1, 5) minutes
FoodMaxMin == 5
\* simpy event priorities
URGENT == 0
NORMAL == 1

\* ------------------------------------------------------------ strings
\* A typed string is a sequence of characters; "sup2" stands for the
\* character U+00B2 (superscript two).
DecimalChars == {"0", "1", "2", "3", "4", "5", "6", "7", "8", "9"}
Alphabet == {"0", "1", "a", "-", "sup2"}

DigitValue(ch) ==
    CASE ch = "0" -> 0 [] ch = "1" -> 1 [] ch = "2" -> 2 [] ch = "3" -> 3
      [] ch = "4" -> 4 [] ch = "5" -> 5 [] ch = "6" -> 6 [] ch = "7" -> 7
      [] ch = "8" -> 8 [] ch = "9" -> 9 [] OTHER -> 0

StringsUpTo(n) == UNION {[1..k -> Alphabet] : k \in 0..n}

\* str.isdigit() on one character: true of the decimal digits and of the
\* other characters with the Unicode digit property, such as U+00B2.
IsDigitChar(ch) == ch \in DecimalChars \/ ch = "sup2"

\* str.isdigit(): at least one character, and all of them digits.
IsDigit(s) == Len(s) > 0 /\ \A i \in 1..Len(s) : IsDigitChar(s[i])

\* The value of a string of decimal digits, most significant first.
RECURSIVE DecimalValue(_)
DecimalValue(s) ==
    IF Len(s) = 0 THEN 0
    ELSE 10 * DecimalValue(SubSeq(s, 1, Len(s) - 1)) + DigitValue(s[Len(s)])

\* int(x) on a string that passed isdigit(): the decimal value, or
\* ValueError when a character is a digit but not a decimal digit.
IntOf(s) ==
    IF Len(s) > 0 /\ \A i \in 1..Len(s) : s[i] \in DecimalChars
    THEN [ok |-> TRUE, val |-> DecimalValue(s)]
    ELSE [ok |-> FALSE, val |-> 0]

\* Faulty variant: the parameters are returned as [cashiers, ushers, servers].
get_user_input_reordered(num_cashiers, num_servers, num_ushers) ==
    LET params == <<num_cashiers, num_ushers, num_servers>>
    IN  IF \A i \in 1..3 : IsDigit(params[i])
        THEN IF \A i \in 1..3 : IntOf(params[i]).ok
             THEN [raised |-> FALSE, warned |-> FALSE,
                   params |-> [i \in 1..3 |-> IntOf(params[i]).val]]
             ELSE [raised |-> TRUE, warned |-> FALSE, params |-> <<>>]
        ELSE [raised |-> FALSE, warned |-> TRUE, params |-> <<1, 1, 1>>]

\* get_user_input(): the parameters returned for the three typed strings,
\* whether the warning is printed, and whether int() raised.
get_user_input(num_cashiers, num_servers, num_ushers) ==
    LET params == <<num_cashiers, num_servers, num_ushers>>
    IN  IF \A i \in 1..3 : IsDigit(params[i])
        THEN IF \A i \in 1..3 : IntOf(params[i]).ok
             THEN [raised |-> FALSE, warned |-> FALSE,
                   params |-> [i \in 1..3 |-> IntOf(params[i]).val]]
             ELSE [raised |-> TRUE, warned |-> FALSE, params |-> <<>>]
        ELSE [raised |-> FALSE, warned |-> TRUE, params |-> <<1, 1, 1>>]

\* ----------------------------------------------- calculate_wait_time
RECURSIVE Sum(_)
Sum(s) == IF Len(s) = 0 THEN 0 ELSE s[1] + Sum(Tail(s))

\* round(num / den) for num >= 0, den > 0: to nearest, ties to even. (On
\* an exact tie the float the notebook rounds may lie just below it.)
Round(num, den) ==
    LET q == num \div den
        r == num % den
    IN  IF 2 * r < den THEN q
        ELSE IF 2 * r > den THEN q + 1
        ELSE IF q % 2 = 0 THEN q ELSE q + 1

\* calculate_wait_time(wait_times) for a non-empty list of samples in
\* seconds: average_wait is Sum/(60*n) minutes; divmod(average_wait, 1)
\* gives the whole minutes and the fraction; seconds is the fraction * 60,
\* that is (Sum mod 60*n)/n; both are rounded.
calculate_wait_time(samples) ==
    LET n == Len(samples)
        total == Sum(samples)
        minutes == total \div (SecPerMin * n)
        frac_num == total % (SecPerMin * n)
    IN  [mins |-> minutes, secs |-> Round(frac_num, n)]

\* ------------------------------------------------------------- state
VARIABLES
    until,       \* the horizon env.run is given, in seconds
    pc,          \* main()'s position: seed, input, setup, run, report, done, error
    err,         \* the exception main() ended with, or "none"
    runs,        \* calls of main() started in this session
    entered,     \* the three strings typed at the prompts of this run
    params,      \* [num_cashiers, num_servers, num_ushers] as get_user_input returned
    warned,      \* whether get_user_input printed its warning in this run
    now,         \* env.now, in seconds
    queue,       \* the environment's event queue, in processing order
    capacity,    \* capacity of theater.cashier, .usher, .server (0: no theater yet)
    users,       \* per pool, the requests holding a slot (Resource.users)
    put_queue,   \* per pool, the requests waiting for a slot (Resource.put_queue)
    moviegoer,   \* run_theater's local counter; customers 0..moviegoer exist
    cust,        \* per customer: position in go_to_movies and arrival_time
    wait_times,  \* the module-level list, in seconds
    reports,     \* the summary lines printed so far, with the run's inputs
    stream,      \* what the generator seeded with 0 yields, as far as drawn
    pos          \* draws made since random.seed(0)

vars == <<until, pc, err, runs, entered, params, warned, now, queue, capacity, users,
          put_queue, moviegoer, cust, wait_times, reports, stream, pos>>

mainVars == <<until, pc, err, runs, entered, params, warned, reports>>
simVars == <<now, queue, capacity, users, put_queue, moviegoer, cust>>
rngVars == <<stream, pos>>

Pools == {"cashier", "usher", "server"}
NoPool == "none"
\* No customer: below every customer number.
NoOne == 0 - 1

\* ----------------------------------------------------- event kernel
Event(time, prio, kind, who, pool) ==
    [time |-> time, prio |-> prio, kind |-> kind, who |-> who, pool |-> pool]

\* Environment.schedule: the queue is a heap keyed by (time, priority,
\* event id); a new event has the largest id, so it goes behind every
\* event of the same time and priority.
Schedule(q, ev) ==
    LET before == {i \in 1..Len(q) :
                      \/ q[i].time < ev.time
                      \/ q[i].time = ev.time /\ q[i].prio <= ev.prio}
        k == Cardinality(before)
    IN  SubSeq(q, 1, k) \o <<ev>> \o SubSeq(q, k + 1, Len(q))

\* env.process(generator): an Initialize event, urgent, at the current time.
Process(q, t, kind, who) == Schedule(q, Event(t, URGENT, kind, who, NoPool))

\* A kernel state threaded through one event's callbacks.
Kernel(u, pq, q) == [users |-> u, put_queue |-> pq, queue |-> q]

\* Faulty variant: a slot is given while the users are no more than the capacity.
DoPut_OffByOne(k, p) == Len(k.users[p]) <= capacity[p]

\* Resource._do_put: the request gets a slot iff fewer users than capacity.
DoPut(k, p) == Len(k.users[p]) < capacity[p]

\* Faulty variant: the request that joined the put queue last is tried.
TriggerPut_Lifo(k, p, t) ==
    IF Len(k.put_queue[p]) > 0 /\ DoPut(k, p)
    THEN LET n == Len(k.put_queue[p])
             h == k.put_queue[p][n]
         IN  Kernel([k.users EXCEPT ![p] = Append(@, h)],
                    [k.put_queue EXCEPT ![p] = SubSeq(@, 1, n - 1)],
                    Schedule(k.queue, Event(t, NORMAL, "granted", h, p)))
    ELSE k

\* BaseResource._trigger_put: the head of the put queue is tried; when it
\* gets a slot it joins users, leaves the queue and its request event is
\* scheduled. _do_put returns None, so the loop stops after one request.
TriggerPut(k, p, t) ==
    IF Len(k.put_queue[p]) > 0 /\ DoPut(k, p)
    THEN LET h == Head(k.put_queue[p])
         IN  Kernel([k.users EXCEPT ![p] = Append(@, h)],
                    [k.put_queue EXCEPT ![p] = Tail(@)],
                    Schedule(k.queue, Event(t, NORMAL, "granted", h, p)))
    ELSE k

\* Faulty variant: the request joins the put queue and no slot is looked for.
Request_Queued(k, p, c, t) ==
    Kernel(k.users, [k.put_queue EXCEPT ![p] = Append(@, c)], k.queue)

\* resource.request(): the request joins the put queue, then _trigger_put.
Request(k, p, c, t) ==
    TriggerPut(Kernel(k.users, [k.put_queue EXCEPT ![p] = Append(@, c)], k.queue),
               p, t)

Without(s, c) == SelectSeq(s, LAMBDA x : x # c)

\* Faulty variant: the request leaves users and no Release event follows.
Release_NoEvent(k, p, c, t) ==
    Kernel([k.users EXCEPT ![p] = Without(@, c)], k.put_queue, k.queue)

\* Faulty variant: the request stays among the users when it is released.
Release_Kept(k, p, c, t) ==
    Kernel(k.users,
           k.put_queue,
           Schedule(k.queue, Event(t, NORMAL, "release", NoOne, p)))

\* resource.release(request), at the end of a with block: the request
\* leaves users at once and a Release event is scheduled, whose callback
\* is _trigger_put.
Release(k, p, c, t) ==
    Kernel([k.users EXCEPT ![p] = Without(@, c)],
           k.put_queue,
           Schedule(k.queue, Event(t, NORMAL, "release", NoOne, p)))

\* ----------------------------------------------------------- theater
\* Theater.__init__(self, env, num_cashiers, num_ushers, num_servers)
Theater(num_cashiers, num_ushers, num_servers) ==
    [cashier |-> num_cashiers, usher |-> num_ushers, server |-> num_servers]

\* run_theater(env, num_cashiers, num_servers, num_ushers) creates the
\* theater with its own arguments in its own order.
run_theater_Theater(num_cashiers, num_servers, num_ushers) ==
    Theater(num_cashiers, num_servers, num_ushers)

\* main(): num_cashiers, num_servers, num_ushers = get_user_input(), then
\* run_theater(env, num_cashiers, num_servers, num_ushers).
main_Theater(p) == run_theater_Theater(p[1], p[2], p[3])

\* go_to_movies: the pool a stage waits for or is served by.
PoolOf(stage) ==
    CASE stage \in {"wait_cashier", "buy"} -> "cashier"
      [] stage \in {"wait_usher", "check"} -> "usher"
      [] stage \in {"wait_server", "food"} -> "server"
      [] OTHER -> NoPool

\* The stage a customer enters when its request is granted.
Served(stage) ==
    CASE stage = "wait_cashier" -> "buy"
      [] stage = "wait_usher" -> "check"
      [] stage = "wait_server" -> "food"
      [] OTHER -> stage

EmptyPools == [p \in Pools |-> <<>>]
NoTheater == [p \in Pools |-> 0]

\* ---------------------------------------------------------- generator
NoDraw == [purchase |-> 0, choice |-> 0, food |-> 0]

\* The values the next draw of a kind can yield: what the generator
\* yielded at this position after an earlier random.seed(0), if that is
\* known, else any value of the range.
DrawValues(kind, n) ==
    IF pos < Len(stream) /\ stream[pos + 1][kind] # 0
    THEN {stream[pos + 1][kind]}
    ELSE 1..n

Drawn(kind, v) ==
    /\ pos' = pos + 1
    /\ stream' = IF pos < Len(stream)
                 THEN [stream EXCEPT ![pos + 1][kind] = v]
                 ELSE Append(stream, [NoDraw EXCEPT ![kind] = v])

\* ---------------------------------------------------------------- main
\* The notebook after its definition cells have run: wait_times = [].
Start(horizon) ==
    /\ until = horizon
    /\ pc = "seed"
    /\ err = "none"
    /\ runs = 1
    /\ entered = <<>>
    /\ params = <<>>
    /\ warned = FALSE
    /\ now = 0
    /\ queue = <<>>
    /\ capacity = NoTheater
    /\ users = EmptyPools
    /\ put_queue = EmptyPools
    /\ moviegoer = NoOne
    /\ cust = <<>>
    /\ wait_times = <<>>
    /\ reports = <<>>
    /\ stream = <<>>
    /\ pos = 0

Init == Start(Horizon)

\* main(): random.seed(0)
MainSeed ==
    /\ pc = "seed"
    /\ pos' = 0
    /\ pc' = "input"
    /\ UNCHANGED <<until, err, runs, entered, params, warned, reports, stream,
                   wait_times>>
    /\ UNCHANGED simVars

\* main(): get_user_input(), the strings typed at the three prompts being
\* any of Cashiers, Servers and Ushers.
GetUserInput(Cashiers, Servers, Ushers) ==
    /\ pc = "input"
    /\ \E a \in Cashiers, b \in Servers, c \in Ushers :
          LET r == get_user_input(a, b, c)
          IN  /\ entered' = <<a, b, c>>
              /\ warned' = r.warned
              /\ params' = r.params
              /\ pc' = IF r.raised THEN "error" ELSE "setup"
              /\ err' = IF r.raised THEN "ValueError" ELSE err
    /\ UNCHANGED <<until, runs, reports, wait_times>>
    /\ UNCHANGED simVars
    /\ UNCHANGED rngVars

\* Faulty variant: the stop event is processed after the other events of its instant.
UntilEvent_Late == Event(until, NORMAL + 1, "until", NoOne, NoPool)

\* Faulty variant: the horizon is given in the wrong unit.
UntilEvent_WrongUnit == Event(until * SecPerMin, URGENT, "until", NoOne, NoPool)

\* The until event of env.run(until=...): urgent, at the horizon.
UntilEvent == Event(until, URGENT, "until", NoOne, NoPool)

\* main(): env = simpy.Environment(); env.process(run_theater(...));
\* env.run(until=90) schedules its stop event and starts stepping.
MainSetup ==
    /\ pc = "setup"
    /\ now' = 0
    /\ queue' = Schedule(Process(<<>>, 0, "init_run", NoOne), UntilEvent)
    /\ capacity' = NoTheater
    /\ users' = EmptyPools
    /\ put_queue' = EmptyPools
    /\ moviegoer' = NoOne
    /\ cust' = <<>>
    /\ pc' = "run"
    /\ UNCHANGED <<until, err, runs, entered, params, warned, reports,
                   wait_times>>
    /\ UNCHANGED rngVars

\* ---------------------------------------------------- event handlers
\* Environment.step pops the first event, sets env.now to its time and
\* runs its callbacks. The model follows the clock up to the horizon, where
\* the until event is the first of its instant (StepsToHorizon).
Stepping(kind) ==
    /\ pc = "run"
    /\ Len(queue) > 0
    /\ Head(queue).time <= until
    /\ Head(queue).kind = kind
    /\ now' = Head(queue).time

\* A customer record as env.process(go_to_movies(...)) creates it: the
\* stage go_to_movies is at, arrival_time, the instant the slot in use
\* was acquired and the delays of the customer's services so far.
NewCustomer == [stage |-> "created", arrival |-> -1, since |-> -1, service |-> 0]

\* cust with customers up to number m added; customers are numbered from 0
\* and customer c is cust[c + 1].
WithCustomers(cs, m) ==
    [i \in 1..(m + 1) |-> IF i <= Len(cs) THEN cs[i] ELSE NewCustomer]

RECURSIVE Processes(_, _, _, _)
\* env.process(go_to_movies(...)) for the customers from..to, in order.
Processes(q, t, from, to) ==
    IF from > to THEN q
    ELSE Processes(Process(q, t, "init_cust", from), t, from + 1, to)

\* Resource(env, capacity) raises ValueError unless capacity > 0.
ResourceOk(cap) == cap > 0

\* run_theater up to its first yield: the theater, the first three
\* moviegoers, and the timeout of the arrival loop.
RunTheaterStart ==
    /\ Stepping("init_run")
    /\ LET th == main_Theater(params)
           t == Head(queue).time
       IN  IF \A p \in Pools : ResourceOk(th[p])
           THEN /\ capacity' = th
                /\ moviegoer' = InitialMoviegoers - 1
                /\ cust' = WithCustomers(cust, InitialMoviegoers - 1)
                /\ queue' = Schedule(
                               Processes(Tail(queue), t, 0, InitialMoviegoers - 1),
                               Event(t + ArrivalInterval, NORMAL, "arrive",
                                     NoOne, NoPool))
                /\ UNCHANGED <<pc, err>>
           ELSE /\ pc' = "error"
                /\ err' = "ValueError"
                /\ queue' = Tail(queue)
                /\ UNCHANGED <<capacity, moviegoer, cust>>
    /\ UNCHANGED <<until, runs, entered, params, warned, reports, wait_times,
                   users, put_queue>>
    /\ UNCHANGED rngVars

\* run_theater's loop body after its timeout: the next moviegoer, then
\* the next timeout.
Arrive ==
    /\ Stepping("arrive")
    /\ LET t == Head(queue).time
       IN  /\ moviegoer' = moviegoer + 1
           /\ cust' = WithCustomers(cust, moviegoer + 1)
           /\ queue' = Schedule(
                          Process(Tail(queue), t, "init_cust", moviegoer + 1),
                          Event(t + ArrivalInterval, NORMAL, "arrive",
                                NoOne, NoPool))
    /\ UNCHANGED <<capacity, users, put_queue, wait_times>>
    /\ UNCHANGED mainVars
    /\ UNCHANGED rngVars

\* go_to_movies up to its first yield: arrival_time = env.now and the
\* request for a cashier.
CustomerStart ==
    /\ Stepping("init_cust")
    /\ LET c == Head(queue).who
           t == Head(queue).time
           k == Request(Kernel(users, put_queue, Tail(queue)), "cashier", c, t)
       IN  /\ cust' = [cust EXCEPT ![c + 1] =
                          [NewCustomer EXCEPT !.stage = "wait_cashier",
                                              !.arrival = t]]
           /\ users' = k.users
           /\ put_queue' = k.put_queue
           /\ queue' = k.queue
    /\ UNCHANGED <<capacity, moviegoer, wait_times>>
    /\ UNCHANGED mainVars
    /\ UNCHANGED rngVars

\* go_to_movies after "yield request": env.process(theater.<service>(...)).
Granted ==
    /\ Stepping("granted")
    /\ LET c == Head(queue).who
           t == Head(queue).time
       IN  /\ cust' = [cust EXCEPT ![c + 1].stage = Served(@),
                                   ![c + 1].since = t]
           /\ queue' = Process(Tail(queue), t, "init_svc", c)
    /\ UNCHANGED <<capacity, users, put_queue, moviegoer, wait_times>>
    /\ UNCHANGED mainVars
    /\ UNCHANGED rngVars

\* Theater.purchase_ticket: env.timeout(random.randint(1, 3)), in seconds.
purchase_ticket(v) == v * SecPerMin

\* Faulty variant: the check takes 3 minutes.
check_ticket_Minutes == CheckTime * SecPerMin

\* Theater.check_ticket: env.timeout(3.0 / 60.0), in seconds.
check_ticket == CheckTime

\* Theater.sell_food: env.timeout(random.randint(1, 5)), in seconds.
sell_food(v) == v * SecPerMin

\* The service process up to its yield: the delay is drawn and its
\* timeout scheduled.
ServiceStart ==
    /\ Stepping("init_svc")
    /\ LET c == Head(queue).who
           t == Head(queue).time
           stage == cust[c + 1].stage
           After(d) ==
               /\ queue' = Schedule(Tail(queue),
                                    Event(t + d, NORMAL, "svc_timeout", c, NoPool))
               /\ cust' = [cust EXCEPT ![c + 1].service = @ + d]
       IN  CASE stage = "buy" ->
                  \E v \in DrawValues("purchase", PurchaseMaxMin) :
                      /\ After(purchase_ticket(v))
                      /\ Drawn("purchase", v)
             [] stage = "food" ->
                  \E v \in DrawValues("food", FoodMaxMin) :
                      /\ After(sell_food(v))
                      /\ Drawn("food", v)
             [] OTHER ->
                  /\ After(check_ticket)
                  /\ UNCHANGED rngVars
    /\ UNCHANGED <<capacity, users, put_queue, moviegoer, wait_times>>
    /\ UNCHANGED mainVars

\* The service process after its timeout: the generator ends and the
\* process event is scheduled for the customer waiting on it.
ServiceTimeout ==
    /\ Stepping("svc_timeout")
    /\ queue' = Schedule(Tail(queue),
                         Event(Head(queue).time, NORMAL, "svc_end",
                               Head(queue).who, NoPool))
    /\ UNCHANGED <<capacity, users, put_queue, moviegoer, cust, wait_times>>
    /\ UNCHANGED mainVars
    /\ UNCHANGED rngVars

\* Faulty variant: the list is started anew with the sample.
Recorded_Reset(wt, t, arrival) == <<t - arrival>>

\* Faulty variant: the sample is the clock, not the time since arrival.
Recorded_Clock(wt, t, arrival) == Append(wt, t)

\* Faulty variant: the sample is not appended.
Recorded_Dropped(wt, t, arrival) == wt

\* go_to_movies' last statement: wait_times.append(env.now - arrival_time).
Recorded(wt, t, arrival) == Append(wt, t - arrival)

\* Faulty variant: every customer goes to the concession stand.
WantsFood_Always(v) == TRUE

\* random.choice([True, False]): draw 1 is True, draw 2 is False.
WantsFood(v) == v = 1

\* Faulty variant: the concession comes before the ticket check.
NextStage_FoodFirst(stage, food) ==
    CASE stage = "buy" -> "wait_server"
      [] stage = "food" -> "wait_usher"
      [] OTHER -> "seated"

\* go_to_movies: the stage that follows the end of a service.
NextStage(stage, food) ==
    CASE stage = "buy" -> "wait_usher"
      [] stage = "check" -> IF food THEN "wait_server" ELSE "seated"
      [] OTHER -> "seated"

\* go_to_movies resumed by the end of a service: the with block releases
\* the slot; then the next request, or the sample and the end of the process.
ServiceEnd ==
    /\ Stepping("svc_end")
    /\ LET c == Head(queue).who
           t == Head(queue).time
           stage == cust[c + 1].stage
           rel == Release(Kernel(users, put_queue, Tail(queue)),
                          PoolOf(stage), c, t)
           Next_(p) == Request(rel, p, c, t)
           Leave ==
               /\ wait_times' = Recorded(wait_times, t, cust[c + 1].arrival)
               /\ cust' = [cust EXCEPT ![c + 1].stage = "seated"]
               /\ users' = rel.users
               /\ put_queue' = rel.put_queue
               /\ queue' = Schedule(rel.queue,
                                    Event(t, NORMAL, "cust_end", c, NoPool))
           Queue(p, st) ==
               /\ cust' = [cust EXCEPT ![c + 1].stage = st]
               /\ users' = Next_(p).users
               /\ put_queue' = Next_(p).put_queue
               /\ queue' = Next_(p).queue
               /\ UNCHANGED wait_times
           Go(st) == IF st = "seated" THEN Leave ELSE Queue(PoolOf(st), st)
       IN  IF stage = "check"
           THEN \E v \in DrawValues("choice", 2) :
                    /\ Drawn("choice", v)
                    /\ Go(NextStage(stage, WantsFood(v)))
           ELSE /\ Go(NextStage(stage, FALSE))
                /\ UNCHANGED rngVars
    /\ UNCHANGED <<capacity, moviegoer>>
    /\ UNCHANGED mainVars

\* A Release event is processed: its callback _trigger_put gives the freed
\* slot to the head of the pool's queue.
ReleaseEvent ==
    /\ Stepping("release")
    /\ LET k == TriggerPut(Kernel(users, put_queue, Tail(queue)),
                           Head(queue).pool, Head(queue).time)
       IN  /\ users' = k.users
           /\ put_queue' = k.put_queue
           /\ queue' = k.queue
    /\ UNCHANGED <<capacity, moviegoer, cust, wait_times>>
    /\ UNCHANGED mainVars
    /\ UNCHANGED rngVars

\* The process event of a finished go_to_movies: nothing waits on it.
CustomerEnd ==
    /\ Stepping("cust_end")
    /\ queue' = Tail(queue)
    /\ UNCHANGED <<capacity, users, put_queue, moviegoer, cust, wait_times>>
    /\ UNCHANGED mainVars
    /\ UNCHANGED rngVars

\* The until event: StopSimulation ends env.run and main() goes on.
StopSimulation ==
    /\ Stepping("until")
    /\ queue' = Tail(queue)
    /\ pc' = "report"
    /\ UNCHANGED <<until, err, runs, entered, params, warned, reports>>
    /\ UNCHANGED <<capacity, users, put_queue, moviegoer, cust, wait_times>>
    /\ UNCHANGED rngVars

\* get_average_wait_time: statistics.mean raises StatisticsError on an
\* empty list.
MeanDefined(samples) == Len(samples) > 0

\* main(): mins, secs = calculate_wait_time(wait_times) and the summary line.
Report ==
    /\ pc = "report"
    /\ IF MeanDefined(wait_times)
       THEN /\ reports' = Append(reports,
                                 [entered |-> entered,
                                  mins |-> calculate_wait_time(wait_times).mins,
                                  secs |-> calculate_wait_time(wait_times).secs])
            /\ pc' = "done"
            /\ UNCHANGED err
       ELSE /\ pc' = "error"
            /\ err' = "StatisticsError"
            /\ UNCHANGED reports
    /\ UNCHANGED <<until, runs, entered, params, warned, wait_times>>
    /\ UNCHANGED simVars
    /\ UNCHANGED rngVars

\* The cell "main()" is run again in the same session.
MainAgain ==
    /\ pc \in {"done", "error"}
    /\ runs < MaxRuns
    /\ runs' = runs + 1
    /\ pc' = "seed"
    /\ err' = "none"
    /\ entered' = <<>>
    /\ params' = <<>>
    /\ warned' = FALSE
    /\ UNCHANGED <<until, reports, wait_times>>
    /\ UNCHANGED simVars
    /\ UNCHANGED rngVars

\* ------------------------------------------------------ specifications
Str(ch) == <<ch>>

\* What is typed at each prompt in a run of the simulation.
SimTyped == {Str("0"), Str("1"), Str("2")}

Simulate ==
    \/ RunTheaterStart
    \/ Arrive
    \/ CustomerStart
    \/ Granted
    \/ ServiceStart
    \/ ServiceTimeout
    \/ ServiceEnd
    \/ ReleaseEvent
    \/ CustomerEnd
    \/ StopSimulation

\* One call of main() in a fresh session.
Next ==
    \/ MainSeed
    \/ GetUserInput(SimTyped, SimTyped, SimTyped)
    \/ MainSetup
    \/ Simulate
    \/ Report

Spec == Init /\ [][Next]_vars

\* One call of main(), with weak fairness: the interpreter takes the next
\* step of main() and of env.run() as long as there is one.
InitLive == Start(ShortHorizon)

SpecLive == InitLive /\ [][Next]_vars /\ WF_vars(Next)

\* Only get_user_input, on every triple of strings up to MaxLen.
AllTyped == StringsUpTo(MaxLen)

NextInput ==
    \/ MainSeed
    \/ GetUserInput(AllTyped, AllTyped, AllTyped)

SpecInput == Init /\ [][NextInput]_vars

\* A session in which main() is called up to MaxRuns times.
\* The runs of a session differ in the number of cashiers.
SessionTyped == {Str("1"), Str("2")}

InitSession == Start(ShortHorizon)

NextSession ==
    \/ MainSeed
    \/ GetUserInput(SessionTyped, {Str("1")}, {Str("1")})
    \/ MainSetup
    \/ Simulate
    \/ Report
    \/ MainAgain

SpecSession == InitSession /\ [][NextSession]_vars

\* Only the summary of main(), on every list of up to MaxSamples samples.
SampleValues == {0, 3, 59, 63, 120, 123, 183}

SampleLists == UNION {[1..k -> SampleValues] : k \in 0..MaxSamples}

InitWait ==
    /\ until = Horizon
    /\ pc = "report"
    /\ err = "none"
    /\ runs = 1
    /\ entered = <<Str("1"), Str("1"), Str("1")>>
    /\ params = <<1, 1, 1>>
    /\ warned = FALSE
    /\ now = 0
    /\ queue = <<>>
    /\ capacity = NoTheater
    /\ users = EmptyPools
    /\ put_queue = EmptyPools
    /\ moviegoer = NoOne
    /\ cust = <<>>
    /\ wait_times \in SampleLists
    /\ reports = <<>>
    /\ stream = <<>>
    /\ pos = 0

NextWait == Report

SpecWait == InitWait /\ [][NextWait]_vars

\* ============================================================= claims
\* get_user_input has been called in this run and the prompts answered.
Answered == entered # <<>>

\* A non-negative integer written in decimal digits.
IsDecimalString(s) == Len(s) > 0 /\ \A i \in 1..Len(s) : s[i] \in DecimalChars

RECURSIVE Pow10(_)
Pow10(n) == IF n = 0 THEN 1 ELSE 10 * Pow10(n - 1)

\* The number a decimal string writes: each digit times its place value.
RECURSIVE PlaceSum(_, _)
PlaceSum(s, i) ==
    IF i > Len(s) THEN 0
    ELSE DigitValue(s[i]) * Pow10(Len(s) - i) + PlaceSum(s, i + 1)

Written(s) == PlaceSum(s, 1)

\* C1 (as claimed): whenever at least one of the three entered strings is
\* not a non-negative integer written in decimal digits, get_user_input
\* returns [1, 1, 1] and prints the warning. Violated: a string of digit
\* characters that are not decimal (U+00B2) passes isdigit() and int()
\* raises ValueError instead.
C1_InvalidFallsBack ==
    (Answered /\ \E i \in 1..3 : ~IsDecimalString(entered[i]))
        => (pc = "setup" /\ params = <<1, 1, 1>> /\ warned)

\* C2: whenever all three entered strings are non-negative integers written
\* in decimal digits, get_user_input returns exactly their three values in
\* the order (cashiers, servers, ushers), prints no warning and substitutes
\* no default.
C2_ValidReturned ==
    (Answered /\ \A i \in 1..3 : IsDecimalString(entered[i]))
        => /\ pc = "setup"
           /\ ~warned
           /\ params = <<Written(entered[1]), Written(entered[2]),
                         Written(entered[3])>>

\* C2 witness: three different valid entries, one of two digits, returned.
C2_Witness ==
    /\ pc = "setup"
    /\ entered = <<(<<"1", "0">>), Str("0"), Str("1")>>
    /\ params = <<10, 0, 1>>
    /\ ~warned

\* The value typed at a prompt of this run.
EnteredCashiers == Written(entered[1])
EnteredServers == Written(entered[2])
EnteredUshers == Written(entered[3])

\* C3 (as claimed): in a run of main() the capacity of the cashier pool is
\* the value entered at '# of cashiers', that of the usher pool the value
\* entered at '# of ushers' and that of the server pool the value entered
\* at '# of servers'. Violated: run_theater passes (cashiers, servers,
\* ushers) to Theater.__init__(cashiers, ushers, servers).
C3_PoolsAsEntered ==
    capacity # NoTheater
        => /\ capacity.cashier = EnteredCashiers
           /\ capacity.usher = EnteredUshers
           /\ capacity.server = EnteredServers

\* C4 (as claimed): any two executions of main() given the same three
\* staffing inputs report the same average wait time, also when they follow
\* one another in a session. Violated: wait_times keeps the samples of the
\* earlier runs of the session.
C4_SameInputsSameReport ==
    \A i \in 1..Len(reports), j \in 1..Len(reports) :
        reports[i].entered = reports[j].entered
            => /\ reports[i].mins = reports[j].mins
               /\ reports[i].secs = reports[j].secs

\* Customers (as indices of cust) by what they have done.
Seated == {i \in DOMAIN cust : cust[i].stage = "seated"}
Arrived == {i \in DOMAIN cust : cust[i].arrival >= 0}
InSeq(x, q) == \E k \in 1..Len(q) : q[k] = x

\* C5: in every reachable state of a run started with an empty wait_times,
\* the length of wait_times is the number of customers that have completed
\* their whole sequence; a customer still queued or served has no sample.
C5_OneSamplePerCompleted == Len(wait_times) = Cardinality(Seated)

\* C5 witness: the horizon is reached with two customers recorded, one
\* at the concession and one still in the cashier line.
C5_Witness ==
    /\ pc = "report"
    /\ Len(wait_times) = 2
    /\ \E i \in DOMAIN cust : cust[i].stage = "food"
    /\ \E i \in DOMAIN cust : cust[i].stage = "wait_cashier"

\* The steps of a customer through go_to_movies.
StageSteps ==
    {<<"created", "wait_cashier">>, <<"wait_cashier", "buy">>,
     <<"buy", "wait_usher">>, <<"wait_usher", "check">>,
     <<"check", "wait_server">>, <<"check", "seated">>,
     <<"wait_server", "food">>, <<"food", "seated">>}

\* C6: every customer goes through the stages in one fixed order: cashier
\* slot, purchase_ticket, release; then usher slot, check_ticket, release;
\* then, if chosen, server slot, sell_food, release; then its wait time is
\* recorded. Each step moves a customer along that order only, a customer
\* holds a slot only of the pool of its current stage and is served only
\* while holding one, and a sample is appended exactly when one customer
\* ends its last stage.
C6_StageOrder ==
    [][/\ \A i \in DOMAIN cust' :
             IF i \in DOMAIN cust
             THEN \/ cust'[i].stage = cust[i].stage
                  \/ <<cust[i].stage, cust'[i].stage>> \in StageSteps
             ELSE cust'[i].stage = "created"
       /\ \A p \in Pools : \A k \in 1..Len(users'[p]) :
             PoolOf(cust'[users'[p][k] + 1].stage) = p
       /\ \A i \in DOMAIN cust' :
             cust'[i].stage \in {"buy", "check", "food"}
                 => InSeq(i - 1, users'[PoolOf(cust'[i].stage)])
       /\ wait_times' # wait_times
             => /\ Len(wait_times') = Len(wait_times) + 1
                /\ Cardinality({i \in DOMAIN cust :
                                   /\ cust[i].stage \in {"check", "food"}
                                   /\ cust'[i].stage = "seated"}) = 1
      ]_vars

\* C6 witness: the first customer is recorded after ticket, check and
\* concession (60 s + 3 s + 60 s).
C6_Witness ==
    /\ Len(wait_times) >= 1
    /\ wait_times[1] = 123
    /\ cust[1].stage = "seated"

\* C7: in every reachable state, for each pool, the customers holding a
\* slot of it, and those being served in it, are at most its capacity.
C7_CapacitySafety ==
    \A p \in Pools :
        /\ Len(users[p]) <= capacity[p]
        /\ Cardinality({i \in DOMAIN cust :
                           /\ cust[i].stage \in {"buy", "check", "food"}
                           /\ PoolOf(cust[i].stage) = p}) <= capacity[p]

\* C7 witness: both of two cashiers serve while customers queue for them.
C7_Witness ==
    /\ capacity.cashier = 2
    /\ Len(users.cashier) = 2
    /\ Cardinality({i \in DOMAIN cust : cust[i].stage = "buy"}) = 2
    /\ Len(put_queue.cashier) > 0

\* All events of the current instant are processed: time is about to advance.
Quiet == pc = "run" /\ Len(queue) > 0 /\ Head(queue).time > now

\* The simulation ran to its horizon.
RanToHorizon == pc \in {"report", "done"} \/ (pc = "error" /\ err = "StatisticsError")

\* C8: three customers arrive at time 0 and one at every multiple of 12 s
\* strictly before the horizon: customer number c >= 3 arrives at
\* 12 * (c - 2) s, at any time t before the horizon 3 + floor(t / 12)
\* customers have arrived, and none arrives at or after the horizon.
C8_ArrivalSchedule ==
    capacity # NoTheater
        => /\ \A i \in Arrived :
                 /\ cust[i].arrival = (IF i <= 3 THEN 0 ELSE 12 * (i - 3))
                 /\ cust[i].arrival < until
           /\ Quiet => /\ Cardinality(Arrived) = 3 + (now \div 12)
                       /\ Len(cust) = Cardinality(Arrived)
           /\ RanToHorizon => Cardinality(Arrived) = 3 + ((until - 1) \div 12)

\* C8 witness: the horizon is reached one arrival interval after the last
\* customer came.
C8_Witness ==
    /\ pc = "report"
    /\ now = until
    /\ Len(cust) = 3 + ((until - 1) \div 12)
    /\ cust[Len(cust)].arrival = 12 * (Len(cust) - 3)
    /\ cust[Len(cust)].arrival + 12 = until

\* C9: for every staffing triple of positive integers the simulation
\* started by main() eventually stops at the horizon and main() reaches
\* the step that reports the average.
C9_Terminates ==
    (pc = "setup" /\ \A i \in 1..3 : params[i] > 0)
        ~> (pc = "report" /\ now = until)

\* C9 witness: the report step is reached at the horizon, after customers
\* arrived throughout the run.
C9_Witness ==
    /\ pc = "report"
    /\ now = until
    /\ \A i \in 1..3 : params[i] > 0
    /\ Len(cust) > 3

\* C10 (as claimed): for every non-empty list of wait times the pair
\* (minutes, seconds) is well formed: minutes is the whole-minute part of
\* the mean, seconds is an integer with 0 <= seconds <= 59, and
\* minutes * 60 + seconds is the mean in seconds rounded to the nearest
\* second. Violated: a fraction of 59.5 s or more is rounded to 60.
C10_WellFormed ==
    \A k \in 1..Len(reports) :
        LET n == Len(wait_times)
            total == Sum(wait_times)
            shown == 60 * reports[k].mins + reports[k].secs
        IN  /\ reports[k].mins = total \div (60 * n)
            /\ reports[k].secs \in 0..59
            /\ 2 * (n * shown - total) <= n
            /\ 2 * (total - n * shown) <= n

\* While env.run is stepping there is a next event, and it is not later
\* than the horizon: the bound in Stepping cuts nothing off.
StepsToHorizon == pc = "run" => (Len(queue) > 0 /\ Head(queue).time <= until)

\* ------------------------------------------------------------------ C11
\* The longest purchase Theater.purchase_ticket's docstring announces,
\* in minutes ("Takes between 1 and 2 minutes").
DocPurchaseMaxMin == 2

\* The pending ends of ticket purchases: the timeout events of customers
\* who hold a cashier slot.
PurchaseEnds ==
    {i \in 1..Len(queue) : /\ queue[i].kind = "svc_timeout"
                           /\ cust[queue[i].who + 1].stage = "buy"}

\* C11: every ticket purchase takes between 1 and 2 minutes: for every
\* customer, the time from the instant its cashier slot was acquired to
\* the end of purchase_ticket is at least 1 and at most 2 minutes.
C11_PurchaseOneToTwoMinutes ==
    pc = "run" =>
        \A i \in PurchaseEnds :
            LET d == queue[i].time - cust[queue[i].who + 1].since
            IN  SecPerMin <= d /\ d <= DocPurchaseMaxMin * SecPerMin

\* ------------------------------------------------------------------ C12
\* Customer number i - 1 ends go_to_movies in this step.
Completes(i) ==
    /\ i <= Len(cust')
    /\ cust[i].stage # "seated"
    /\ cust'[i].stage = "seated"

\* C12: every sample of wait_times is the instant its customer finished
\* its last stage minus the instant that same customer arrived; hence it
\* is non-negative and at least the sum of that customer's own service
\* durations.
C12_SampleIsSojourn ==
    [][/\ \A i \in 1..Len(cust) :
            Completes(i) =>
                LET sample == Head(queue).time - cust[i].arrival
                IN  /\ wait_times' = Append(wait_times, sample)
                    /\ sample >= 0
                    /\ sample >= cust[i].service
       /\ wait_times' # wait_times => \E i \in 1..Len(cust) : Completes(i)
      ]_vars

\* A customer who arrived after time 0 and stood in a queue has just been
\* recorded: its sample is longer than its own services.
C12_Witness ==
    /\ pc = "run"
    /\ Len(wait_times) > 0
    /\ \E i \in 1..Len(cust) :
          /\ cust[i].stage = "seated"
          /\ cust[i].arrival > 0
          /\ wait_times[Len(wait_times)] = now - cust[i].arrival
          /\ wait_times[Len(wait_times)] > cust[i].service

\* ------------------------------------------------------------------ C13
\* One call of main() in a fresh session with 1 or 2 typed for the
\* cashiers and the servers and 1 for the ushers: every pool has queues.
NextChoice ==
    \/ MainSeed
    \/ GetUserInput(SessionTyped, SessionTyped, {Str("1")})
    \/ MainSetup
    \/ Simulate
    \/ Report

SpecChoice == Init /\ [][NextChoice]_vars

\* The next event ends the ticket check of customer number c.
ChoiceDue(c) ==
    /\ pc = "run"
    /\ Len(queue) > 0
    /\ Head(queue).kind = "svc_end"
    /\ Head(queue).who = c
    /\ cust[c + 1].stage = "check"

\* Customer number c holds a server slot or waits for one.
AtConcession(u, pq, c) == InSeq(c, u["server"]) \/ InSeq(c, pq["server"])

\* Both outcomes of the choice can follow, whatever the queues hold.
BothOutcomes ==
    \A c \in 0..(Len(cust) - 1) :
        ChoiceDue(c) =>
            /\ ENABLED (ServiceEnd /\ cust'[c + 1].stage = "seated")
            /\ ENABLED (ServiceEnd /\ cust'[c + 1].stage = "wait_server")

\* C13: after its ticket check each customer makes one two-way choice and
\* both outcomes are possible whatever the queues hold. A customer that
\* skips the concession never requests or holds a server slot and is
\* recorded at the very instant its ticket check ends; a customer that
\* chooses the concession is recorded only after sell_food has finished.
C13_ConcessionChoice ==
    [][/\ BothOutcomes
       /\ \A i \in 1..Len(cust) :
            i <= Len(cust') =>
              /\ AtConcession(users', put_queue', i - 1)
                    => cust'[i].stage \in {"wait_server", "food"}
              /\ (cust[i].stage = "check" /\ cust'[i].stage # "check") =>
                    /\ pos' = pos + 1
                    /\ cust'[i].stage \in {"seated", "wait_server"}
                    /\ now' = cust[i].since + CheckTime
              /\ (cust[i].stage = "check" /\ cust'[i].stage = "seated") =>
                    /\ ~AtConcession(users, put_queue, i - 1)
                    /\ wait_times' = Append(wait_times, now' - cust[i].arrival)
              /\ (cust[i].stage = "check" /\ cust'[i].stage = "wait_server") =>
                    /\ AtConcession(users', put_queue', i - 1)
                    /\ wait_times' = wait_times
              /\ (cust[i].stage \in {"wait_server", "food"} /\ Completes(i)) =>
                    /\ cust[i].stage = "food"
                    /\ now' - cust[i].since >= SecPerMin
                    /\ now' - cust[i].since <= FoodMaxMin * SecPerMin
      ]_vars

\* One customer skipped the concession and is recorded with a purchase
\* and a check only; another has just been recorded at the end of a
\* sell_food of a minute or more.
C13_Witness ==
    /\ pc = "run"
    /\ \E i, j \in 1..Len(cust) :
          /\ cust[i].stage = "seated"
          /\ cust[i].service = SecPerMin + CheckTime
          /\ cust[j].stage = "seated"
          /\ now - cust[j].since >= SecPerMin
          /\ \E e \in 1..Len(queue) :
                queue[e].kind = "cust_end" /\ queue[e].who = j - 1

\* ------------------------------------------------------------------ C14
\* The horizon, in seconds, of the runs with a slot for every customer.
UncontendedHorizon == 76

\* Typed for a pool: one slot, or more slots than customers ever arrive.
UncontendedTyped == {Str("1"), <<"1", "1">>}

InitUncontended == Start(UncontendedHorizon)

\* One call of main() with a slot for every customer at the ushers and
\* the servers, and at the cashiers or not.
NextUncontended ==
    \/ MainSeed
    \/ GetUserInput(UncontendedTyped, {<<"1", "1">>}, {<<"1", "1">>})
    \/ MainSetup
    \/ Simulate
    \/ Report

SpecUncontended == InitUncontended /\ [][NextUncontended]_vars

\* The customers that ever arrive in a run to the horizon.
EverArrive == InitialMoviegoers + ((until - 1) \div ArrivalInterval)

\* Every pool of cap has a slot for every customer that ever arrives.
Uncontended(cap) == \A p \in Pools : cap[p] >= EverArrive

FirstHorizon == 484

\* The samples up to which such a run is followed.
FirstSamples == 2

InitFirst == Start(FirstHorizon)

\* One call of main() with one cashier, one usher and one or two servers,
\* its simulation followed while wait_times has fewer than FirstSamples
\* samples: every run that could reach the report without a sample is
\* followed to the report.
NextFirst ==
    \/ MainSeed
    \/ GetUserInput({Str("1")}, {Str("1")}, SessionTyped)
    \/ MainSetup
    \/ (Len(wait_times) < FirstSamples /\ Simulate)
    \/ Report

SpecFirst == InitFirst /\ [][NextFirst]_vars

\* The longest a customer served without queueing takes: 8 min 3 s.
LongestService == (PurchaseMaxMin + FoodMaxMin) * SecPerMin + CheckTime

\* C15: the average is defined whenever main() reports it: for a staffing
\* triple of positive integers and every outcome of the draws, a customer
\* has been recorded once 8 min 3 s have passed, hence before the horizon,
\* and get_average_wait_time is not applied to an empty list.
C15_AverageDefined ==
    (capacity # NoTheater /\ until > LongestService) =>
        /\ (pc = "run" /\ Len(queue) > 0 /\ Head(queue).time > LongestService)
              => Len(wait_times) > 0
        /\ pc = "report" => MeanDefined(wait_times)
        /\ err # "StatisticsError"

\* The slowest first customer: the report is made with the one sample of
\* 8 min 3 s.
C15_Witness ==
    /\ pc = "done"
    /\ wait_times = <<LongestService>>
    /\ Len(reports) = 1

\* ------------------------------------------------------------------ C16
\* get_user_input returned what was typed, without falling back.
Accepted ==
    /\ Answered
    /\ ~warned
    /\ \A i \in 1..3 : IsDecimalString(entered[i])
    /\ params = <<EnteredCashiers, EnteredServers, EnteredUshers>>

\* C16 (as claimed): every staffing triple get_user_input accepts, the
\* value 0 included, is usable: main() builds the three pools and runs
\* the simulation, never ending in the error raised for a pool that
\* cannot be built.
C16_AcceptedIsUsable ==
    Accepted => ~(pc = "error" /\ err = "ValueError")

\* ------------------------------------------------------------------ C17
\* The slots customer number c holds in u, as (pool, position) pairs.
SlotsOf(u, c) == {<<p, k>> \in Pools \X (1..Len(cust)) :
                    k <= Len(u[p]) /\ u[p][k] = c}

\* The pools in whose queue customer number c waits.
QueuesOf(pq, c) == {p \in Pools : InSeq(c, pq[p])}

\* C17: no slot is leaked or held across stages: each customer holds at
\* most one slot over the three pools, that of the stage it is in; the slot
\* is released in the step that ends its service, before the next pool is
\* requested; a recorded customer holds no slot and is in no queue.
C17_NoSlotLeak ==
    [][\A i \in 1..Len(cust') :
          LET held == SlotsOf(users', i - 1)
              waits == QueuesOf(put_queue', i - 1)
          IN  /\ Cardinality(held) + Cardinality(waits) <= 1
              /\ \A s \in held : s[1] = PoolOf(cust'[i].stage)
              /\ \A p \in waits : p = PoolOf(cust'[i].stage)
              /\ cust'[i].stage \in {"created", "seated"}
                    => held = {} /\ waits = {}
              /\ (i <= Len(cust) /\ cust[i].stage \in {"buy", "check", "food"}
                                /\ cust'[i].stage # cust[i].stage)
                    => ~InSeq(i - 1, users'[PoolOf(cust[i].stage)])
      ]_vars

\* A customer has been recorded after holding the slots of its stages in
\* turn, while a pool has all its slots held and a customer waiting.
C17_Witness ==
    /\ pc = "run"
    /\ \E i \in 1..Len(cust) :
          /\ cust[i].stage = "seated"
          /\ cust[i].service >= 2 * SecPerMin + CheckTime
          /\ cust[i].since >= cust[i].arrival + SecPerMin + CheckTime
    /\ \E p \in Pools : Len(users[p]) > 0 /\ Len(put_queue[p]) > 0

\* ------------------------------------------------------------------ C18
\* Customer cust[i] has started purchase_ticket.
Purchasing(i) == cust[i].stage \notin {"created", "wait_cashier"}

\* C18: the cashier line is first-come-first-served: customers arrive in
\* the order of their creation and start purchase_ticket in that order; of
\* two customers the earlier never starts its purchase later than the
\* other, and the cashier queue holds its customers in arrival order.
C18_CashierFifo ==
    /\ \A i, j \in 1..Len(cust) :
          i < j =>
            /\ cust[j].arrival >= 0 =>
                  (cust[i].arrival >= 0 /\ cust[i].arrival <= cust[j].arrival)
            /\ Purchasing(j) => Purchasing(i)
            /\ (cust[i].stage = "buy" /\ cust[j].stage = "buy")
                  => cust[i].since <= cust[j].since
    /\ \A a, b \in 1..Len(put_queue["cashier"]) :
          a < b => put_queue["cashier"][a] < put_queue["cashier"][b]

\* A customer that arrived after time 0 and waited in the cashier line
\* has started its purchase, and others still wait behind it.
C18_Witness ==
    /\ pc = "run"
    /\ Len(put_queue["cashier"]) > 1
    /\ \E j \in 1..Len(cust) :
          /\ cust[j].stage = "buy"
          /\ cust[j].arrival > 0
          /\ cust[j].since > cust[j].arrival

\* ------------------------------------------------------------------ C19
\* C19: the pools are work-conserving: whenever simulated time is about to
\* advance, no pool has both a free slot and a customer waiting in its
\* queue; a customer waits only while all slots of its pool are held.
C19_WorkConserving ==
    Quiet => \A p \in Pools :
                Len(put_queue[p]) > 0 => Len(users[p]) = capacity[p]

\* Time is about to advance after a slot was handed over: a customer that
\* had to wait is being served, others wait for the same pool, and
\* another pool has a free slot and nobody waiting.
C19_Witness ==
    /\ Quiet
    /\ \E i \in 1..Len(cust) :
          /\ cust[i].stage \in {"buy", "check", "food"}
          /\ cust[i].since > cust[i].arrival
          /\ cust[i].since = now
          /\ Len(put_queue[PoolOf(cust[i].stage)]) > 0
    /\ \E p \in Pools : Len(users[p]) < capacity[p] /\ put_queue[p] = <<>>

\* ------------------------------------------------------------------ C20
\* C20: wait_times is append-only and changed by nothing but a customer
\* completing: the one step that changes it is the end of a go_to_movies,
\* which appends one sample and keeps the earlier samples and their
\* order; no other step of the simulation and no step of main(), in the
\* first call or a later one, changes or empties it.
C20_AppendOnly ==
    [][wait_times' # wait_times =>
          /\ pc = "run" /\ pc' = "run"
          /\ Head(queue).kind = "svc_end"
          /\ Completes(Head(queue).who + 1)
          /\ Len(wait_times') = Len(wait_times) + 1
          /\ SubSeq(wait_times', 1, Len(wait_times)) = wait_times
      ]_vars

\* In the second call of main() a customer has been recorded and the
\* samples of the first call are still in the list.
C20_Witness ==
    /\ runs = 2
    /\ pc = "run"
    /\ Len(reports) = 1
    /\ Cardinality(Seated) > 0
    /\ Len(wait_times) > Cardinality(Seated)

====
